---- MODULE Spec2Model ----
(***************************************************************************)
(* FrameAnnotator backend: the frame extractor (video_service.py) with its *)
(* global extraction semaphore and per-session status document, and the   *)
(* label engine (label_service.py) with its per-session label document.   *)
(*                                                                         *)
(* Numbers a caller may send as non-integers (box coordinates) are kept    *)
(* as integers in units of 1/Scale.                                        *)
(***************************************************************************)
EXTENDS Integers, Sequences, FiniteSets, TLC

(* ----------------------------- bounds ---------------------------------- *)
\* sessions uploaded concurrently
NumSessions == 3
\* decodable raw frames of the source video (above PROGRESS_EVERY, so that a
\* progress write happens)
MaxRaw == 31
\* frames the extraction of the labelled session produced
NumFrames == 1
\* request threads serving the label API at the same time
NumThreads == 2

(* ------------------------- program constants --------------------------- *)
MAX_CONCURRENT_EXTRACTIONS == 2
\* progress is persisted when processed % 30 == 0
PROGRESS_EVERY == 30
\* width of the zero-padded frame number in a frame file name
NAME_DIGITS == 5

Sessions == 1..NumSessions

(* ----------------------------- helpers --------------------------------- *)
Max(a, b) == IF a >= b THEN a ELSE b
Min(a, b) == IF a <= b THEN a ELSE b

Digits == <<"0", "1", "2", "3", "4", "5", "6", "7", "8", "9">>

RECURSIVE DecStr(_)
DecStr(n) == IF n < 10 THEN Digits[n + 1] ELSE DecStr(n \div 10) \o Digits[(n % 10) + 1]

RECURSIVE ZeroPad(_, _)
ZeroPad(s, w) == IF Len(s) >= w THEN s ELSE ZeroPad("0" \o s, w)

\* f"{config.FRAME_PREFIX}{n:05d}.jpg"
FrameName(n) == "frame_" \o ZeroPad(DecStr(n), NAME_DIGITS) \o ".jpg"

\* Python round() of the quotient n / d (n >= 0, d > 0): to nearest, ties to even
PyRound(n, d) ==
    LET q == n \div d
        r == n % d
    IN  IF 2 * r < d THEN q
        ELSE IF 2 * r > d THEN q + 1
        ELSE IF q % 2 = 0 THEN q ELSE q + 1

\* frame_interval = max(1, int(round(video_fps / fps))) if video_fps > 0 else 1
FrameInterval(video_fps, fps) ==
    IF video_fps > 0 THEN Max(1, PyRound(video_fps, fps)) ELSE 1

(* -------------------------- status document ---------------------------- *)
\* the payload _write_status stores in frames/<session>/status.json
StatusPayload(st, total, processed, msg) ==
    [status |-> st, total_frames |-> total, processed_frames |-> processed, message |-> msg]

NoStatus == [status |-> "absent"]

\* the locals of one extract_frames call; a call that has not started or has
\* left the function has none
NoLocals ==
    [acquired |-> FALSE, total_frames |-> 0, video_fps |-> 0, frame_interval |-> 1,
     nraw |-> 0, frame_idx |-> 0, saved_files |-> <<>>, raising |-> FALSE]

VARIABLES
    pc,      \* per session: position of upload_video / extract_frames
    status,  \* per session: content of the status document
    sem,     \* free slots of _extract_semaphore
    slot,    \* per session: "none" | "held" | "released": its slot of the semaphore
    fps,     \* per session: requested sampling rate of the scheduled extraction
    run      \* per session: locals of extract_frames (acquired, total_frames,
             \* video_fps, frame_interval, frame_idx, saved_files), the frames
             \* the decoder will deliver (nraw) and whether an exception is
             \* propagating

VARIABLES
    labels,  \* per session: content of the label document labels/<session>.json
    req      \* per request thread of the label API: the request it is serving
             \* and the document it loaded

VARIABLES
    disk     \* per session: the files besides the two documents: the videos/,
             \* frames/ and crops/ directories of the session, its frame images
             \* and its two export archives

extractVars == <<pc, status, sem, slot, fps, run>>

labelVars == <<labels, req>>

vars == <<extractVars, labelVars, disk>>

\* no label document is stored for the session (load_labels returns None)
NoDoc == [exists |-> FALSE]

\* a request thread that serves no request
IdleReq == [op |-> "idle", stage |-> "idle"]

Threads == 1..NumThreads

\* an export archive that does not exist
NoArchive == [exists |-> FALSE]

\* a session none of whose directories or files exist; a frame image is a
\* pair <<n, raw>>: the file frames/<session>/frame_<n, five digits>.jpg,
\* encoded from the raw frame of index raw
NoDisk ==
    [videos |-> FALSE, frames_dir |-> FALSE, frames |-> {}, crops |-> FALSE,
     export |-> NoArchive, det_export |-> NoArchive]

\* ensure_session_dirs and store_video: the three directories and raw.mp4
StagedDisk == [NoDisk EXCEPT !.videos = TRUE, !.frames_dir = TRUE, !.crops = TRUE]

(* ------------------------------ inputs --------------------------------- *)
\* requested rates: 0 is rejected with InvalidRate
FpsInputs == {0, 5}
\* source videos: native rate (0: unknown), decodable frames, reported count
VideoInputs ==
    { [native |-> 30, frames |-> MaxRaw, count |-> MaxRaw] }

ExtractInit ==
    /\ pc = [s \in Sessions |-> "none"]
    /\ disk = [s \in Sessions |-> NoDisk]
    /\ status = [s \in Sessions |-> NoStatus]
    /\ sem = MAX_CONCURRENT_EXTRACTIONS
    /\ slot = [s \in Sessions |-> "none"]
    /\ fps = [s \in Sessions |-> 0]
    /\ run = [s \in Sessions |-> NoLocals]

\* _write_status succeeded: the document is replaced
WriteStatus(s, payload) == status' = [status EXCEPT ![s] = payload]

\* the call leaves extract_frames with an exception: its locals are gone
Raise(s) ==
    /\ pc' = [pc EXCEPT ![s] = "raised"]
    /\ run' = [run EXCEPT ![s] = NoLocals]
    /\ fps' = [fps EXCEPT ![s] = 0]

(* ------------------------- upload_video -------------------------------- *)
\* create_session writes `pending`, store_video stages raw.mp4 and
\* run_extraction is scheduled (a rejected upload schedules nothing). Session
\* ids are opaque: sessions are numbered in the order of their uploads.
Upload(s) ==
    /\ pc[s] = "none"
    /\ UNCHANGED labelVars
    /\ disk' = [disk EXCEPT ![s] = StagedDisk]
    /\ \A t \in Sessions : t < s => pc[t] # "none"
    /\ WriteStatus(s, StatusPayload("pending", 0, 0, ""))
    /\ \E f \in FpsInputs : fps' = [fps EXCEPT ![s] = f]
    /\ pc' = [pc EXCEPT ![s] = "scheduled"]
    /\ UNCHANGED <<sem, slot, run>>

(* ------------------------- extract_frames ------------------------------ *)
\* lines 99-115: the checks before admission, then the video's metadata
StartExtract(s) ==
    /\ pc[s] = "scheduled"
    /\ UNCHANGED labelVars
    /\ disk' = [disk EXCEPT ![s].frames_dir = (@ \/ fps[s] > 0)]   \* line 104: mkdir
    /\ \/ /\ fps[s] <= 0                                    \* InvalidRate
          /\ Raise(s)
       \/ /\ fps[s] > 0                                     \* SourceMissing, SourceUnreadable
          /\ Raise(s)
       \/ /\ fps[s] > 0
          /\ disk[s].videos                                 \* raw.mp4 is staged
          /\ \E v \in VideoInputs :
                run' = [run EXCEPT ![s] =
                          [@ EXCEPT !.total_frames = v.count,
                                    !.video_fps = v.native,
                                    !.frame_interval = FrameInterval(v.native, fps[s]),
                                    !.nraw = v.frames]]
          /\ pc' = [pc EXCEPT ![s] = "acquire"]
          /\ UNCHANGED fps
    /\ UNCHANGED <<status, sem, slot>>

\* a semaphore that admits one caller more than it has slots
CanAcquireOffByOne == sem >= 0

\* BoundedSemaphore.acquire(blocking=False): whether a slot can be taken now
CanAcquire == sem > 0

\* line 118: acquired = _extract_semaphore.acquire(blocking=False)
TryAcquire(s) ==
    /\ pc[s] = "acquire"
    /\ UNCHANGED <<labelVars, disk>>
    /\ IF CanAcquire
       THEN /\ sem' = sem - 1
            /\ slot' = [slot EXCEPT ![s] = "held"]
            /\ run' = [run EXCEPT ![s].acquired = TRUE]
            /\ pc' = [pc EXCEPT ![s] = "write_processing"]
       ELSE /\ run' = [run EXCEPT ![s].acquired = FALSE]
            /\ pc' = [pc EXCEPT ![s] = "write_queued"]
            /\ UNCHANGED <<sem, slot>>
    /\ UNCHANGED <<status, fps>>

\* a caller that waits for a slot without announcing it
WriteQueuedSkipped(s) ==
    /\ pc[s] = "write_queued"
    /\ UNCHANGED <<labelVars, disk>>
    /\ pc' = [pc EXCEPT ![s] = "blocked"]
    /\ UNCHANGED <<status, run, fps, sem, slot>>

\* line 120: the `queued` write (an I/O failure propagates; no slot is held)
WriteQueued(s) ==
    /\ pc[s] = "write_queued"
    /\ UNCHANGED <<labelVars, disk>>
    /\ \/ /\ WriteStatus(s, StatusPayload("queued", run[s].total_frames, 0,
                                          "waiting for an extraction slot"))
          /\ pc' = [pc EXCEPT ![s] = "blocked"]
          /\ UNCHANGED <<run, fps>>
       \/ /\ Raise(s)
          /\ UNCHANGED status
    /\ UNCHANGED <<sem, slot>>

\* line 121: _extract_semaphore.acquire() blocks until a slot is free
BlockingAcquire(s) ==
    /\ pc[s] = "blocked"
    /\ UNCHANGED <<labelVars, disk>>
    /\ CanAcquire
    /\ sem' = sem - 1
    /\ slot' = [slot EXCEPT ![s] = "held"]
    /\ pc' = [pc EXCEPT ![s] = "write_processing"]
    /\ UNCHANGED <<status, fps, run>>

\* an exception of the `processing` write of line 123: the write stands before
\* the try statement, so the exception leaves the function past the finally
ProcessingWriteFails(s) ==
    /\ Raise(s)
    /\ UNCHANGED <<status, sem, slot>>

\* line 123: the `processing` write
WriteProcessing(s) ==
    /\ pc[s] = "write_processing"
    /\ UNCHANGED <<labelVars, disk>>
    /\ \/ /\ WriteStatus(s, StatusPayload("processing", run[s].total_frames, 0, ""))
          /\ pc' = [pc EXCEPT ![s] = "decode"]
          /\ UNCHANGED <<run, fps, sem, slot>>
       \/ ProcessingWriteFails(s)

\* a loop that keeps the frames whose one-based index is a multiple of the interval
RECURSIVE KeepFramesOneBased(_, _, _, _)
KeepFramesOneBased(saved, i, j, interval) ==
    IF i >= j THEN saved
    ELSE KeepFramesOneBased(IF (i + 1) % interval = 0 THEN Append(saved, FrameName(Len(saved) + 1))
                            ELSE saved,
                            i + 1, j, interval)

\* lines 135-148 over raw frames i .. j-1: a frame whose index is a multiple of
\* the interval is written under the next sequential name
RECURSIVE KeepFrames(_, _, _, _)
KeepFrames(saved, i, j, interval) ==
    IF i >= j THEN saved
    ELSE KeepFrames(IF i % interval = 0 THEN Append(saved, FrameName(Len(saved) + 1)) ELSE saved,
                    i + 1, j, interval)

\* lines 135-148 over raw frames i .. j-1: cv2.imwrite of the kept frames, the
\* n-th kept frame under the n-th name (a file of that name is replaced)
RECURSIVE WriteFrames(_, _, _, _, _)
WriteFrames(files, nsaved, i, j, interval) ==
    IF i >= j THEN files
    ELSE IF i % interval = 0
         THEN WriteFrames({f \in files : f[1] # nsaved + 1} \cup {<<nsaved + 1, i>>},
                          nsaved + 1, i + 1, j, interval)
         ELSE WriteFrames(files, nsaved, i + 1, j, interval)

\* frames/<session>/ exists: it was made and not removed, or status.json,
\* which lies in it, exists
FramesDirExists(s) == disk[s].frames_dir \/ status[s] # NoStatus

\* the raw index at which the loop next leaves its silent stretch: the next
\* progress write (processed % 30 == 0) or the end of the stream
NextStop(i, n) == Min(n, ((i \div PROGRESS_EVERY) + 1) * PROGRESS_EVERY)

\* lines 130-155: the decode loop from one status write to the next
DecodeLoop(s) ==
    /\ pc[s] = "decode"
    /\ UNCHANGED labelVars
    /\ \/ /\ run[s].frame_idx = run[s].nraw                  \* cap.read() fails: break
          /\ pc' = [pc EXCEPT ![s] = "release"]
          /\ UNCHANGED <<run, disk>>
       \/ /\ run[s].frame_idx < run[s].nraw
          /\ LET j == NextStop(run[s].frame_idx, run[s].nraw) IN
                /\ run' = [run EXCEPT ![s] =
                             [@ EXCEPT !.frame_idx = j,
                                       !.saved_files = KeepFrames(@, run[s].frame_idx, j,
                                                                  run[s].frame_interval)]]
                /\ disk' = [disk EXCEPT ![s].frames =       \* imwrite into a missing
                               IF FramesDirExists(s)         \* directory writes nothing
                               THEN WriteFrames(@, Len(run[s].saved_files), run[s].frame_idx, j,
                                                run[s].frame_interval)
                               ELSE @]
                /\ pc' = [pc EXCEPT ![s] = IF j % PROGRESS_EVERY = 0 THEN "write_progress" ELSE "decode"]
       \/ /\ run[s].frame_idx < run[s].nraw                  \* resize / imwrite raises
          /\ run' = [run EXCEPT ![s].raising = TRUE]
          /\ pc' = [pc EXCEPT ![s] = "write_error"]
          /\ UNCHANGED disk
    /\ UNCHANGED <<status, sem, slot, fps>>

\* line 155: the progress write inside the try block
WriteProgress(s) ==
    /\ pc[s] = "write_progress"
    /\ UNCHANGED <<labelVars, disk>>
    /\ \/ /\ WriteStatus(s, StatusPayload("processing", run[s].total_frames, run[s].frame_idx, ""))
          /\ pc' = [pc EXCEPT ![s] = "decode"]
          /\ UNCHANGED run
       \/ /\ pc' = [pc EXCEPT ![s] = "write_error"]
          /\ run' = [run EXCEPT ![s].raising = TRUE]
          /\ UNCHANGED status
    /\ UNCHANGED <<sem, slot, fps>>

\* lines 157-165: the except clause writes `error` and re-raises
WriteError(s) ==
    /\ pc[s] = "write_error"
    /\ UNCHANGED <<labelVars, disk>>
    /\ \/ WriteStatus(s, StatusPayload("error", run[s].total_frames, run[s].frame_idx,
                                       "decode failed"))
       \/ UNCHANGED status
    /\ pc' = [pc EXCEPT ![s] = "release"]
    /\ UNCHANGED <<sem, slot, fps, run>>

\* an except clause that swallows the exception instead of re-raising it
ReleaseSwallowing(s) ==
    /\ pc[s] = "release"
    /\ UNCHANGED <<labelVars, disk>>
    /\ sem < MAX_CONCURRENT_EXTRACTIONS
    /\ sem' = sem + 1
    /\ slot' = [slot EXCEPT ![s] = "released"]
    /\ pc' = [pc EXCEPT ![s] = "write_done"]
    /\ UNCHANGED <<run, fps, status>>

\* lines 166-168: finally: cap.release(); _extract_semaphore.release()
Release(s) ==
    /\ pc[s] = "release"
    /\ UNCHANGED <<labelVars, disk>>
    /\ sem < MAX_CONCURRENT_EXTRACTIONS
    /\ sem' = sem + 1
    /\ slot' = [slot EXCEPT ![s] = "released"]
    /\ IF run[s].raising
       THEN Raise(s)
       ELSE /\ pc' = [pc EXCEPT ![s] = "write_done"]
            /\ UNCHANGED <<run, fps>>
    /\ UNCHANGED status

\* lines 170-171: the `done` write, then return saved_files
WriteDone(s) ==
    /\ pc[s] = "write_done"
    /\ UNCHANGED <<labelVars, disk>>
    /\ \/ /\ WriteStatus(s, StatusPayload("done", run[s].total_frames, run[s].frame_idx, ""))
          /\ pc' = [pc EXCEPT ![s] = "returned"]
          /\ run' = [run EXCEPT ![s] = [NoLocals EXCEPT !.saved_files = run[s].saved_files]]
          /\ UNCHANGED fps
       \/ /\ Raise(s)
          /\ UNCHANGED status
    /\ UNCHANGED <<sem, slot>>

ExtractNext ==
    \E s \in Sessions :
        \/ Upload(s)
        \/ StartExtract(s)
        \/ TryAcquire(s)
        \/ WriteQueued(s)
        \/ BlockingAcquire(s)
        \/ WriteProcessing(s)
        \/ DecodeLoop(s)
        \/ WriteProgress(s)
        \/ WriteError(s)
        \/ Release(s)
        \/ WriteDone(s)

\* the state after construction: no session uploaded, no label document
Init ==
    /\ ExtractInit
    /\ labels = [s \in Sessions |-> NoDoc]
    /\ req = [t \in Threads |-> IdleReq]

SpecExtract == Init /\ [][ExtractNext]_vars

(* ------------------- extraction under fair scheduling ------------------- *)
\* run_extraction is an asyncio task and extract_frames runs on a worker
\* thread (asyncio.to_thread): a call that can take its next step takes it,
\* and a caller blocked on the semaphore gets a slot that is released again
\* and again
ExtractFairness ==
    \A s \in Sessions :
        /\ WF_vars(StartExtract(s))
        /\ WF_vars(TryAcquire(s))
        /\ WF_vars(WriteQueued(s))
        /\ SF_vars(BlockingAcquire(s))
        /\ WF_vars(WriteProcessing(s))
        /\ WF_vars(DecodeLoop(s))
        /\ WF_vars(WriteProgress(s))
        /\ WF_vars(WriteError(s))
        /\ WF_vars(Release(s))
        /\ WF_vars(WriteDone(s))

SpecExtractFair == Init /\ [][ExtractNext]_vars /\ ExtractFairness

(* ============================ label engine ============================= *)
\* Optional values of a JSON object: a key that is missing, a key holding
\* null (None), a key holding a value.
Absent == [tag |-> "absent"]
Null == [tag |-> "null"]
Some(v) == [tag |-> "some", v |-> v]
IsPresent(field) == field.tag = "some"

\* Values a caller can put where a number is expected. A number v stands for
\* the real number v / Scale.
Scale == 2
Num(v) == [kind |-> "num", v |-> v]
NumStr(v) == [kind |-> "numstr", v |-> v]   \* a string float() parses, "1.5"
NaN == [kind |-> "nan"]
Inf == [kind |-> "inf"]
Str == [kind |-> "str"]                     \* a string that is no number
None == [kind |-> "none"]                   \* null, or a key that is missing

\* int(v) of a Python number: truncation toward zero
PyInt(v) == IF v >= 0 THEN v \div Scale ELSE -((-v) \div Scale)

RECURSIVE Gcd(_, _)
Gcd(a, b) == IF b = 0 THEN a ELSE Gcd(b, a % b)

\* the float quotient n / d (d > 0) as a reduced fraction
Frac(n, d) ==
    LET g == Gcd(IF n < 0 THEN -n ELSE n, d)
    IN  IF n = 0 THEN <<0, 1>> ELSE <<n \div g, d \div g>>

BoxKeys == {"x", "y", "width", "height"}

\* {"frame_name": name, "labeled": False}, every other key missing
NewFrame(name) ==
    [frame_name |-> name, labeled |-> Some(FALSE), label |-> Absent, hand_label |-> Absent,
     head_box |-> Absent, left_hand_box |-> Absent, right_hand_box |-> Absent,
     keypoints |-> Absent, relative_pose |-> Absent,
     detection_boxes |-> Absent, detection_saved |-> Absent]

\* {"frame_name": name}: the record save_detections registers for an unseen name
LazyFrame(name) == [NewFrame(name) EXCEPT !.labeled = Absent]

\* initialize_session: the document written once extraction returned
initialize_session(session_id, rate, frames) ==
    [exists |-> TRUE, session_id |-> session_id, fps |-> rate,
     frames |-> [i \in 1..Len(frames) |-> NewFrame(frames[i])]]

\* next((frame for frame in frames if frame.get("frame_name") == frame_name), None):
\* index of the first record with that name, 0 when there is none
FindFrame(frames, frame_name) ==
    IF \E i \in 1..Len(frames) : frames[i].frame_name = frame_name
    THEN CHOOSE i \in 1..Len(frames) :
            /\ frames[i].frame_name = frame_name
            /\ \A j \in 1..(i - 1) : frames[j].frame_name # frame_name
    ELSE 0

\* _validate_label / _validate_hand_label: label not in {1, 2, 3, 4, 5}
ValidLabel(label) == label \in 1..5

\* _validate_bbox: "" when the box passes, else the error it raises
\* (a NaN passes: it is a float, and NaN <= 0 is false)
_validate_bbox(bbox) ==
    IF \E k \in BoxKeys : bbox[k].kind = "none" THEN "bbox field missing"
    ELSE IF \E k \in BoxKeys : bbox[k].kind \notin {"num", "nan", "inf"} THEN "bbox field not a number"
    ELSE IF \/ (bbox.width.kind = "num" /\ bbox.width.v <= 0)
            \/ (bbox.height.kind = "num" /\ bbox.height.v <= 0) THEN "bbox size not positive"
    ELSE ""

\* whether int() raises on a field of the box (ValueError on NaN, OverflowError on inf)
CastRaises(bbox) == \E k \in BoxKeys : bbox[k].kind # "num"

\* _cast_bbox
_cast_bbox(bbox) ==
    [x |-> PyInt(bbox.x.v), y |-> PyInt(bbox.y.v),
     width |-> PyInt(bbox.width.v), height |-> PyInt(bbox.height.v)]

\* _boxes_to_keypoints: the centre x + width / 2, y + height / 2 of each box,
\* in units of 1/2
Center(box) == [x |-> 2 * box.x + box.width, y |-> 2 * box.y + box.height]

_boxes_to_keypoints(head_box, left_box, right_box) ==
    [head |-> Center(head_box), left_hand |-> Center(left_box), right_hand |-> Center(right_box)]

\* round(max(0.0, min(1.0, n / d)), 6), in millionths (d > 0)
Clamp01Micro(n, d) ==
    IF n <= 0 THEN 0 ELSE IF n >= d THEN 1000000 ELSE PyRound(n * 1000000, d)

\* _compute_relative_pose, once the head box has positive width and height
_compute_relative_pose(keypoints, bbox) ==
    LET norm(pt) == [x |-> Clamp01Micro(pt.x - 2 * bbox.x, 2 * bbox.width),
                     y |-> Clamp01Micro(pt.y - 2 * bbox.y, 2 * bbox.height)]
    IN  [head |-> norm(keypoints.head), left_hand |-> norm(keypoints.left_hand),
         right_hand |-> norm(keypoints.right_hand)]

\* the result of a label operation: the error it raised ("" for none), the
\* document it leaves stored, and what it returns
Failed(data, err) == [err |-> err, data |-> data, result |-> Absent]

\* an update that rebuilds the record from the pose fields alone
PoseUpdateDroppingDetections(frame, label, hand_label, head_box, left_box, right_box) ==
    LET kp == _boxes_to_keypoints(head_box, left_box, right_box)
    IN  [frame EXCEPT !.labeled = Some(TRUE),
                      !.label = Some(label),
                      !.hand_label = hand_label,
                      !.head_box = Some(head_box),
                      !.left_hand_box = Some(left_box),
                      !.right_hand_box = Some(right_box),
                      !.keypoints = Some(kp),
                      !.relative_pose = Some(_compute_relative_pose(kp, head_box)),
                      !.detection_boxes = Absent,
                      !.detection_saved = Absent]

\* lines 71-82: existing.update({...})
PoseUpdate(frame, label, hand_label, head_box, left_box, right_box) ==
    LET kp == _boxes_to_keypoints(head_box, left_box, right_box)
    IN  [frame EXCEPT !.labeled = Some(TRUE),
                      !.label = Some(label),
                      !.hand_label = hand_label,
                      !.head_box = Some(head_box),
                      !.left_hand_box = Some(left_box),
                      !.right_hand_box = Some(right_box),
                      !.keypoints = Some(kp),
                      !.relative_pose = Some(_compute_relative_pose(kp, head_box))]

\* lines 40-64: the first error the checks of save_label raise, "" for none
SaveLabelError(data, boxes, label, hand_label) ==
    IF ~data.exists THEN "404 session not found"
    ELSE IF ~ValidLabel(label) THEN "400 label"
    ELSE IF hand_label # Null /\ ~ValidLabel(hand_label.v) THEN "400 hand_label"
    ELSE IF boxes.kind # "dict" THEN "400 boxes format"
    ELSE IF \E k \in {"head", "left_hand", "right_hand"} : boxes[k] = Absent
         THEN "400 boxes incomplete"
    ELSE IF _validate_bbox(boxes.head.v) # "" THEN "400 " \o _validate_bbox(boxes.head.v)
    ELSE IF _validate_bbox(boxes.left_hand.v) # "" THEN "400 " \o _validate_bbox(boxes.left_hand.v)
    ELSE IF _validate_bbox(boxes.right_hand.v) # "" THEN "400 " \o _validate_bbox(boxes.right_hand.v)
    ELSE IF \E k \in {"head", "left_hand", "right_hand"} : CastRaises(boxes[k].v)
         THEN "500 int() raised"
    ELSE IF _cast_bbox(boxes.head.v).width <= 0 \/ _cast_bbox(boxes.head.v).height <= 0
         THEN "400 bbox size not positive"
    ELSE ""

\* a save_label that marks the frame before it has checked the request
save_label_marking_first(data, frame_name, boxes, label, hand_label) ==
    LET err == SaveLabelError(data, boxes, label, hand_label)
        i == IF data.exists THEN FindFrame(data.frames, frame_name) ELSE 0
    IN  IF i = 0 THEN Failed(data, IF err # "" THEN err ELSE "404 frame not found")
        ELSE IF err # ""
             THEN [err |-> err,
                   data |-> [data EXCEPT !.frames[i].labeled = Some(TRUE)],
                   result |-> Absent]
             ELSE [err |-> "",
                   data |-> [data EXCEPT !.frames[i] =
                                PoseUpdate(@, label, hand_label, _cast_bbox(boxes.head.v),
                                           _cast_bbox(boxes.left_hand.v),
                                           _cast_bbox(boxes.right_hand.v))],
                   result |-> Some([success |-> TRUE])]

\* save_label on the loaded document `data`; hand_label is Null when omitted.
\* The frame is looked up after every check (line 67) and the document is
\* written only after the update (line 83).
save_label(data, frame_name, boxes, label, hand_label) ==
    LET err == SaveLabelError(data, boxes, label, hand_label)
    IN  IF err # "" THEN Failed(data, err)
        ELSE LET i == FindFrame(data.frames, frame_name)
             IN  IF i = 0 THEN Failed(data, "404 frame not found")
                 ELSE [err |-> "",
                       data |-> [data EXCEPT !.frames[i] =
                                    PoseUpdate(@, label, hand_label, _cast_bbox(boxes.head.v),
                                               _cast_bbox(boxes.left_hand.v),
                                               _cast_bbox(boxes.right_hand.v))],
                       result |-> Some([success |-> TRUE])]

\* float(v) raises (ValueError on a non-numeric string, TypeError on None)
FloatRaises(v) == v.kind \in {"str", "none"}

\* math.isfinite(float(v))
IsFinite(v) == v.kind \in {"num", "numstr"}

DetKeys == {"x", "y", "box_size", "image_width", "image_height"}

\* a validation that lets a detection of any box_size through
ValidDetectionAnySize(det) ==
    /\ \A k \in DetKeys : ~FloatRaises(det[k])
    /\ \A k \in DetKeys : IsFinite(det[k])
    /\ det.image_width.v > 0 /\ det.image_height.v > 0

\* lines 352-373: whether one raw detection survives
ValidDetection(det) ==
    /\ \A k \in DetKeys : ~FloatRaises(det[k])
    /\ \A k \in DetKeys : IsFinite(det[k])
    /\ det.box_size.v > 0 /\ det.image_width.v > 0 /\ det.image_height.v > 0

\* lines 375-392: the record stored for a surviving detection
StoredDetection(det) ==
    [x |-> det.x.v, y |-> det.y.v, box_size |-> det.box_size.v,
     image_width |-> det.image_width.v, image_height |-> det.image_height.v,
     x_center |-> Frac(det.x.v, det.image_width.v),
     y_center |-> Frac(det.y.v, det.image_height.v),
     width |-> Frac(det.box_size.v, det.image_width.v),
     height |-> Frac(det.box_size.v, det.image_height.v)]

\* lines 349-392: valid_dets, the surviving detections in input order
RECURSIVE ValidDets(_)
ValidDets(detections) ==
    IF detections = <<>> THEN <<>>
    ELSE (IF ValidDetection(Head(detections)) THEN <<StoredDetection(Head(detections))>> ELSE <<>>)
         \o ValidDets(Tail(detections))

\* line 395: existing["detection_saved"] = saved and bool(valid_dets)
DetectionSaved(saved, valid_dets) == saved /\ valid_dets # <<>>

\* a save_detections that registers a record without looking the name up
save_detections_always_appending(data, frame_name, detections, saved) ==
    IF ~data.exists THEN [err |-> "", data |-> data, result |-> Null]
    ELSE LET frames == Append(data.frames, LazyFrame(frame_name))
             valid_dets == ValidDets(detections)
             flag == DetectionSaved(saved, valid_dets)
         IN  [err |-> "",
              data |-> [data EXCEPT !.frames =
                           [frames EXCEPT ![Len(frames)] =
                               [@ EXCEPT !.detection_boxes = Some(valid_dets),
                                         !.detection_saved = Some(flag)]]],
              result |-> Some([success |-> TRUE, count |-> Len(valid_dets), saved |-> flag,
                               message |-> "None"])]

\* a save_detections that adds the survivors to the list the frame holds
save_detections_extending(data, frame_name, detections, saved) ==
    IF ~data.exists THEN [err |-> "", data |-> data, result |-> Null]
    ELSE LET found == FindFrame(data.frames, frame_name)
             frames == IF found = 0 THEN Append(data.frames, LazyFrame(frame_name)) ELSE data.frames
             i == IF found = 0 THEN Len(frames) ELSE found
             held == IF IsPresent(frames[i].detection_boxes) THEN frames[i].detection_boxes.v ELSE <<>>
             valid_dets == held \o ValidDets(detections)
             flag == DetectionSaved(saved, valid_dets)
         IN  [err |-> "",
              data |-> [data EXCEPT !.frames =
                           [frames EXCEPT ![i] = [@ EXCEPT !.detection_boxes = Some(valid_dets),
                                                            !.detection_saved = Some(flag)]]],
              result |-> Some([success |-> TRUE, count |-> Len(valid_dets), saved |-> flag,
                               message |-> "None"])]

\* save_detections on the loaded document `data`
save_detections(data, frame_name, detections, saved) ==
    IF ~data.exists THEN [err |-> "", data |-> data, result |-> Null]
    ELSE LET found == FindFrame(data.frames, frame_name)
             frames == IF found = 0 THEN Append(data.frames, LazyFrame(frame_name)) ELSE data.frames
             i == IF found = 0 THEN Len(frames) ELSE found
             valid_dets == ValidDets(detections)
             skipped == Len(detections) - Len(valid_dets)
             flag == DetectionSaved(saved, valid_dets)
             message == IF saved /\ valid_dets = <<>> THEN "no valid boxes, not exported"
                        ELSE IF skipped # 0 THEN "ignored " \o DecStr(skipped) \o " invalid boxes"
                        ELSE "None"
         IN  [err |-> "",
              data |-> [data EXCEPT !.frames =
                           [frames EXCEPT ![i] = [@ EXCEPT !.detection_boxes = Some(valid_dets),
                                                            !.detection_saved = Some(flag)]]],
              result |-> Some([success |-> TRUE, count |-> Len(valid_dets), saved |-> flag,
                               message |-> message])]

\* lines 314-325: what reset_labels does to one frame record
ResetFrame(frame) ==
    [frame EXCEPT !.labeled = Some(FALSE), !.label = Absent, !.hand_label = Absent,
                  !.head_box = Absent, !.left_hand_box = Absent, !.right_hand_box = Absent,
                  !.keypoints = Absent, !.relative_pose = Absent,
                  !.detection_boxes = Absent]

\* a reset that leaves the detection archive in place
reset_files_keeping_detection_archive(d) == [d EXCEPT !.crops = FALSE, !.export = NoArchive]

\* lines 327-330: rmtree of the crops directory, unlink of both archives
reset_files(d) == [d EXCEPT !.crops = FALSE, !.export = NoArchive, !.det_export = NoArchive]

\* reset_labels on the loaded document `data`
reset_labels(data) ==
    IF ~data.exists THEN [err |-> "", data |-> data, result |-> Some(FALSE)]
    ELSE [err |-> "",
          data |-> [data EXCEPT !.frames = [i \in 1..Len(data.frames) |-> ResetFrame(data.frames[i])]],
          result |-> Some(TRUE)]

(* ---------------------------- export packager -------------------------- *)
\* width and height in pixels of the frame images of a session
ImageWidth == 8
ImageHeight == 6

\* _fit_bbox_within raises when the box has width <= 0 or height <= 0 (line 205)
FitRaises(bbox) == bbox.width <= 0 \/ bbox.height <= 0

\* a fit that caps the size and keeps the origin inside the image only
_fit_bbox_capping_only(bbox, max_width, max_height) ==
    <<Max(0, bbox.x), Max(0, bbox.y), Min(bbox.width, max_width), Min(bbox.height, max_height)>>

\* _fit_bbox_within, lines 208-214: the size is capped to the image, then the
\* origin is clamped; returns <<x, y, w, h>>
_fit_bbox_within(bbox, max_width, max_height) ==
    LET w == Min(bbox.width, max_width)
        h == Min(bbox.height, max_height)
    IN  <<Max(0, Min(bbox.x, max_width - w)), Max(0, Min(bbox.y, max_height - h)), w, h>>

\* whether frames/<session>/<frame_name> exists, and the raw frame it holds
FrameFileExists(d, frame_name) == \E f \in d.frames : FrameName(f[1]) = frame_name

FrameFile(d, frame_name) == CHOOSE f \in d.frames : FrameName(f[1]) = frame_name

\* f"head_{head_index:05d}.jpg", f"hand_{hand_index:05d}.jpg"
CropName(kind, index) == kind \o "_" \o ZeroPad(DecStr(index), NAME_DIGITS) \o ".jpg"

\* lines 258-279: the frames export_dataset passes over
ExportSkips(frame, d) ==
    \/ frame.labeled # Some(TRUE)
    \/ frame.frame_name = ""
    \/ ~IsPresent(frame.head_box) \/ ~IsPresent(frame.left_hand_box)
    \/ ~IsPresent(frame.right_hand_box)
    \/ ~IsPresent(frame.label) \/ ~IsPresent(frame.hand_label)
    \/ ~FrameFileExists(d, frame.frame_name)

\* the archive while export_dataset writes it: the entries written so far, the
\* two manifests in memory, the two counters and the exception raised
NewExport ==
    [entries |-> <<>>, head_records |-> <<>>, hand_records |-> <<>>,
     head_index |-> 1, hand_index |-> 1, err |-> ""]

\* lines 281-288: the head crop is written and counted
WriteHead(acc, frame, raw) ==
    [acc EXCEPT
        !.entries = Append(@, [path |-> "data/head_pose/images/" \o CropName("head", acc.head_index),
                               body |-> <<raw, _fit_bbox_within(frame.head_box.v, ImageWidth, ImageHeight)>>]),
        !.head_records = Append(@, [image |-> CropName("head", acc.head_index), label |-> frame.label.v]),
        !.head_index = @ + 1]

\* lines 290-299: the two hand crops, side by side, are written and counted
WriteHand(acc, frame, raw) ==
    [acc EXCEPT
        !.entries = Append(@, [path |-> "data/hand_pose/images/" \o CropName("hand", acc.hand_index),
                               body |-> <<raw, _fit_bbox_within(frame.left_hand_box.v, ImageWidth, ImageHeight),
                                          _fit_bbox_within(frame.right_hand_box.v, ImageWidth, ImageHeight)>>]),
        !.hand_records = Append(@, [image |-> CropName("hand", acc.hand_index), label |-> frame.hand_label.v]),
        !.hand_index = @ + 1]

\* lines 257-299: the body of the loop for one frame record; an exception of
\* _crop_from_image leaves the loop with what was written before it
ExportFrame(acc, frame, d) ==
    IF acc.err # "" \/ ExportSkips(frame, d) THEN acc
    ELSE LET raw == FrameFile(d, frame.frame_name)[2] IN
         IF FitRaises(frame.head_box.v) THEN [acc EXCEPT !.err = "400 bbox size not positive"]
         ELSE IF FitRaises(frame.left_hand_box.v) \/ FitRaises(frame.right_hand_box.v)
              THEN [WriteHead(acc, frame, raw) EXCEPT !.err = "400 bbox size not positive"]
              ELSE WriteHand(WriteHead(acc, frame, raw), frame, raw)

RECURSIVE ExportFrames(_, _, _)
ExportFrames(acc, frames, d) ==
    IF frames = <<>> THEN acc
    ELSE ExportFrames(ExportFrame(acc, Head(frames), d), Tail(frames), d)

\* lines 301-302: the two manifests close the archive of a loop that completed
WithManifests(acc) ==
    IF acc.err # "" THEN acc.entries
    ELSE acc.entries \o <<[path |-> "data/head_pose/labels.json", body |-> acc.head_records],
                          [path |-> "data/hand_pose/labels.json", body |-> acc.hand_records]>>

\* export_dataset on the loaded document and the files of the session: the
\* exception it raises, the archive it leaves at the export path (the `with`
\* statement closes the archive on an exception too) and what it returns
export_dataset(data, d) ==
    IF ~data.exists THEN [err |-> "", archive |-> d.export, result |-> Null]
    ELSE LET acc == ExportFrames(NewExport, data.frames, d)
         IN  [err |-> acc.err,
              archive |-> [exists |-> TRUE, entries |-> WithManifests(acc)],
              result |-> IF acc.err = "" THEN Some("export_path") ELSE Absent]

\* frame_name.rsplit(".", 1)[0] + ".txt" (of the names frames are given)
LabelFileName(frame_name) ==
    IF \E n \in 1..(NumFrames + 1) : frame_name = FrameName(n)
    THEN LET n == CHOOSE n \in 1..(NumFrames + 1) : frame_name = FrameName(n)
         IN  "frame_" \o ZeroPad(DecStr(n), NAME_DIGITS) \o ".txt"
    ELSE frame_name \o ".txt"

\* f"{v:.6f}" of a stored ratio: the millionths it prints
Micro(ratio) == PyRound(ratio[1] * 1000000, ratio[2])

\* line 437: the label line of one stored detection
LabelLine(det) == <<0, Micro(det.x_center), Micro(det.y_center), Micro(det.width), Micro(det.height)>>

\* lines 418-439: the entries export_detections writes for one frame record
DetectionEntries(frame, d) ==
    IF frame.frame_name = "" \/ frame.detection_saved # Some(TRUE) THEN <<>>
    ELSE LET dets == IF IsPresent(frame.detection_boxes) THEN frame.detection_boxes.v ELSE <<>>
             image == IF FrameFileExists(d, frame.frame_name)
                      THEN <<[path |-> "images/" \o frame.frame_name,
                              body |-> <<FrameFile(d, frame.frame_name)[2]>>]>>
                      ELSE <<>>
         IN  image \o <<[path |-> "labels/" \o LabelFileName(frame.frame_name),
                         body |-> [i \in 1..Len(dets) |-> LabelLine(dets[i])]]>>

RECURSIVE DetectionArchive(_, _)
DetectionArchive(frames, d) ==
    IF frames = <<>> THEN <<>>
    ELSE DetectionEntries(Head(frames), d) \o DetectionArchive(Tail(frames), d)

\* export_detections on the loaded document and the files of the session
export_detections(data, d) ==
    IF ~data.exists THEN [err |-> "", archive |-> d.det_export, result |-> Null]
    ELSE [err |-> "",
          archive |-> [exists |-> TRUE, entries |-> DetectionArchive(data.frames, d)],
          result |-> Some("det_export_path")]

\* cleanup_session, lines 191-203 and 205-207: the three directories with all
\* they hold and the classification archive (the two documents are removed
\* by the action)
cleanup_files(d) ==
    [d EXCEPT !.videos = FALSE, !.frames_dir = FALSE, !.frames = {}, !.crops = FALSE,
              !.export = NoArchive]

(* --------------------------- label requests ---------------------------- *)
\* the session whose extraction has returned
LabelSession == 1

\* frame names a caller sends: the extracted frames and one never extracted
FrameInputs == {FrameName(n) : n \in 1..(NumFrames + 1)}

Box(x, y, w, h) == [x |-> x, y |-> y, width |-> w, height |-> h]

\* {x: 4, y: 2, width: 6, height: 8}
BoxA == Box(Num(8), Num(4), Num(12), Num(16))
\* {x: -1.5, y: 0, width: 0.5, height: 1.5}: passes validation, casts to width 0
BoxFraction == Box(Num(-3), Num(0), Num(1), Num(3))
\* {x: 1, y: 1, width: 0, height: 2}
BoxZeroWidth == Box(Num(2), Num(2), Num(0), Num(4))
\* {x: 1, y: 1, width: "a", height: 2}
BoxNotNumeric == Box(Num(2), Num(2), Str, Num(4))
\* {x: 1, y: 1, width: 2}
BoxNoHeight == Box(Num(2), Num(2), Num(4), None)
\* {x: 1, y: 1, width: nan, height: 2}
BoxNaN == Box(Num(2), Num(2), NaN, Num(4))

Boxes(head, left, right) ==
    [kind |-> "dict", head |-> head, left_hand |-> left, right_hand |-> right]

\* three boxes that pass every check
BoxesA == Boxes(Some(BoxA), Some(BoxA), Some(BoxA))

BoxesInputs ==
    { BoxesA,
      Boxes(Some(BoxA), Some(BoxFraction), Some(BoxA)),
      Boxes(Some(BoxFraction), Some(BoxA), Some(BoxA)),
      Boxes(Some(BoxA), Some(BoxZeroWidth), Some(BoxA)),
      Boxes(Some(BoxA), Some(BoxA), Some(BoxNotNumeric)),
      Boxes(Some(BoxNoHeight), Some(BoxA), Some(BoxA)),
      Boxes(Some(BoxA), Some(BoxA), Some(BoxNaN)),
      Boxes(Some(BoxA), Some(BoxA), Absent),
      [kind |-> "list"] }

LabelInputs == {0, 1, 6}
HandLabelInputs == {Null, Some(5), Some(6)}

\* the bodies of save_label requests: every box input with a valid label
\* pair, and every label pair with valid boxes
SaveLabelInputs ==
    { [boxes |-> b, label |-> 1, hand_label |-> Some(5)] : b \in BoxesInputs }
    \cup { [boxes |-> BoxesA, label |-> l, hand_label |-> h] :
               l \in LabelInputs, h \in HandLabelInputs }

Detection(x, y, size, w, h) ==
    [x |-> x, y |-> y, box_size |-> size, image_width |-> w, image_height |-> h]

\* {x: 100, y: 50, box_size: 20, image_width: 200, image_height: 100}
DetA == Detection(Num(200), Num(100), Num(40), Num(400), Num(200))
\* box_size 0
DetZeroSize == Detection(Num(200), Num(100), Num(0), Num(400), Num(200))
\* x: nan
DetNaN == Detection(NaN, Num(100), Num(40), Num(400), Num(200))
\* image_height missing
DetNoHeight == Detection(Num(200), Num(100), Num(40), Num(400), None)

DetectionInputs ==
    { <<>>, <<DetA>>, <<DetZeroSize>>, <<DetNaN, DetA>>, <<DetNoHeight>> }

(* ---------------------- label API, one call at a time ------------------- *)
\* run_extraction, line 20: the label document is written once extract_frames returned
InitializeSession(s) ==
    /\ pc[s] = "returned"
    /\ labels' = [labels EXCEPT ![s] = initialize_session(s, fps[s], run[s].saved_files)]
    /\ pc' = [pc EXCEPT ![s] = "initialized"]
    /\ UNCHANGED <<status, sem, slot, fps, run, req, disk>>

\* save_label with a request body of `requests`: load_labels, the checks,
\* the update, write_json
SaveLabelOf(s, requests) ==
    /\ \E f \in FrameInputs, q \in requests :
          labels' = [labels EXCEPT ![s] =
                        save_label(labels[s], f, q.boxes, q.label, q.hand_label).data]
    /\ UNCHANGED <<extractVars, req, disk>>

SaveLabel(s) == SaveLabelOf(s, SaveLabelInputs)

\* save_detections with a detection list of `lists`: load_labels, the update,
\* write_json
SaveDetectionsOf(s, lists) ==
    /\ \E f \in FrameInputs, d \in lists, saved \in BOOLEAN :
          labels' = [labels EXCEPT ![s] = save_detections(labels[s], f, d, saved).data]
    /\ UNCHANGED <<extractVars, req, disk>>

SaveDetections(s) == SaveDetectionsOf(s, DetectionInputs)

\* reset_labels: load_labels, the update, the deletions, write_json
ResetLabels(s) ==
    /\ labels' = [labels EXCEPT ![s] = reset_labels(labels[s]).data]
    /\ disk' = [disk EXCEPT ![s] = IF labels[s].exists THEN reset_files(@) ELSE @]
    /\ UNCHANGED <<extractVars, req>>

\* the frames the extraction of the labelled session returned
ExtractedFrames == [n \in 1..NumFrames |-> FrameName(n)]

\* the frame images that extraction wrote: every raw frame was kept
ExtractedFiles == {<<n, n - 1>> : n \in 1..NumFrames}

\* extract_frames of one session has returned NumFrames frames of a source
\* of unknown native rate; no label document is written yet
ReturnedInit ==
    /\ pc = [s \in Sessions |-> IF s = LabelSession THEN "returned" ELSE "none"]
    /\ status = [s \in Sessions |-> IF s = LabelSession
                                    THEN StatusPayload("done", NumFrames, NumFrames, "")
                                    ELSE NoStatus]
    /\ sem = MAX_CONCURRENT_EXTRACTIONS
    /\ slot = [s \in Sessions |-> IF s = LabelSession THEN "released" ELSE "none"]
    /\ fps = [s \in Sessions |-> IF s = LabelSession THEN 5 ELSE 0]
    /\ run = [s \in Sessions |-> IF s = LabelSession
                                 THEN [NoLocals EXCEPT !.saved_files = ExtractedFrames]
                                 ELSE NoLocals]
    /\ labels = [s \in Sessions |-> NoDoc]
    /\ disk = [s \in Sessions |-> IF s = LabelSession
                                  THEN [StagedDisk EXCEPT !.frames = ExtractedFiles]
                                  ELSE NoDisk]

\* the same, with no label request being served
LabelInit == ReturnedInit /\ req = [t \in Threads |-> IdleReq]

LabelNext ==
    \/ InitializeSession(LabelSession)
    \/ SaveLabel(LabelSession)
    \/ SaveDetections(LabelSession)
    \/ ResetLabels(LabelSession)

SpecLabel == LabelInit /\ [][LabelNext]_vars

(* ------------------------ detection labelling alone --------------------- *)
\* {x: 30, y: 20, box_size: 10, image_width: 200, image_height: 100}
DetB == Detection(Num(60), Num(40), Num(20), Num(400), Num(200))
\* {x: "100", y: "50", box_size: "20", image_width: "200", image_height: "100"}
DetNumStr == Detection(NumStr(200), NumStr(100), NumStr(40), NumStr(400), NumStr(200))
\* image_width: inf
DetInf == Detection(Num(200), Num(100), Num(40), Inf, Num(200))
\* x: "abc"
DetStr == Detection(Str, Num(100), Num(40), Num(400), Num(200))

\* detection lists with two survivors around a malformed one, and with the
\* remaining kinds of malformed detection
DetectOnlyInputs ==
    DetectionInputs
    \cup { <<DetB, DetZeroSize, DetA>>, <<DetNumStr, DetInf, DetStr>> }

DetectNext ==
    \/ InitializeSession(LabelSession)
    \/ SaveDetectionsOf(LabelSession, DetectOnlyInputs)
    \/ ResetLabels(LabelSession)

SpecDetect == LabelInit /\ [][DetectNext]_vars

(* ----------------------- labelling, export, cleanup --------------------- *)
\* the requests of a labelling round that ends with the exports: a complete
\* pose label, one without hand_label, one whose left-hand box casts to
\* width 0, and one detection list
RoundLabelInputs ==
    { [boxes |-> BoxesA, label |-> 1, hand_label |-> Some(5)],
      [boxes |-> BoxesA, label |-> 1, hand_label |-> Null],
      [boxes |-> Boxes(Some(BoxA), Some(BoxFraction), Some(BoxA)), label |-> 1,
       hand_label |-> Some(5)] }

RoundDetectionInputs == { <<DetA>> }

\* the caller labels first and exports afterwards; reset_labels, which
\* deletes the archives, opens the next round
RoundOpen(s) == disk[s].export = NoArchive /\ disk[s].det_export = NoArchive

RoundSaveLabel(s) == RoundOpen(s) /\ SaveLabelOf(s, RoundLabelInputs)

RoundSaveDetections(s) == RoundOpen(s) /\ SaveDetectionsOf(s, RoundDetectionInputs)

\* export_dataset: load_labels, the archive is written at the export path
ExportDataset(s) ==
    /\ disk' = [disk EXCEPT ![s].export = export_dataset(labels[s], disk[s]).archive]
    /\ UNCHANGED <<extractVars, labelVars>>

\* export_detections: load_labels, the archive is written at its path
ExportDetections(s) ==
    /\ disk' = [disk EXCEPT ![s].det_export = export_detections(labels[s], disk[s]).archive]
    /\ UNCHANGED <<extractVars, labelVars>>

\* cleanup_session of a session whose run_extraction task has ended
CleanupSession(s) ==
    /\ pc[s] = "initialized"
    /\ disk' = [disk EXCEPT ![s] = cleanup_files(@)]
    /\ status' = [status EXCEPT ![s] = NoStatus]
    /\ labels' = [labels EXCEPT ![s] = NoDoc]
    /\ pc' = [pc EXCEPT ![s] = "cleaned"]
    /\ UNCHANGED <<sem, slot, fps, run, req>>

ExportNext ==
    \/ InitializeSession(LabelSession)
    \/ RoundSaveLabel(LabelSession)
    \/ RoundSaveDetections(LabelSession)
    \/ ResetLabels(LabelSession)
    \/ ExportDataset(LabelSession)
    \/ ExportDetections(LabelSession)
    \/ CleanupSession(LabelSession)

SpecExport == LabelInit /\ [][ExportNext]_vars

(* ------------------ upload, extraction, labels, cleanup ----------------- *)
\* the positions of a run_extraction task that has not ended
TaskInFlight ==
    {"scheduled", "acquire", "write_queued", "blocked", "write_processing", "decode",
     "write_progress", "write_error", "release", "write_done", "returned"}

\* cleanup_session (DELETE /{session_id}) served on a worker thread while the
\* run_extraction task of the session is still in flight: the task goes on
CleanupDuringExtraction(s) ==
    /\ pc[s] \in TaskInFlight
    /\ disk' = [disk EXCEPT ![s] = cleanup_files(@)]
    /\ status' = [status EXCEPT ![s] = NoStatus]
    /\ labels' = [labels EXCEPT ![s] = NoDoc]
    /\ UNCHANGED <<pc, sem, slot, fps, run, req>>

SessionNext ==
    \/ ExtractNext
    \/ \E s \in Sessions :
          \/ InitializeSession(s)
          \/ CleanupDuringExtraction(s)
          \/ CleanupSession(s)

SpecSession == Init /\ [][SessionNext]_vars

(* --------------------- one extraction, many sources --------------------- *)
\* native rates (0: unknown) and requested rates: quotients 30/5 = 6,
\* 30/4 = 7.5, 25/4 = 6.25, 25/5 = 5 and quotients below 1/2
NativeRateInputs == {0, 25, 30}
RateInputs == {4, 5, 60}

\* the session whose extraction is followed
SampledSession == LabelSession

\* extract_frames of one session has been granted a slot and has written
\* `processing` (line 123); the source has n decodable raw frames
SamplingInit ==
    \E native \in NativeRateInputs, rate \in RateInputs, n \in 0..MaxRaw :
        /\ pc = [s \in Sessions |-> IF s = SampledSession THEN "decode" ELSE "none"]
        /\ status = [s \in Sessions |-> IF s = SampledSession
                                        THEN StatusPayload("processing", n, 0, "")
                                        ELSE NoStatus]
        /\ sem = MAX_CONCURRENT_EXTRACTIONS - 1
        /\ slot = [s \in Sessions |-> IF s = SampledSession THEN "held" ELSE "none"]
        /\ fps = [s \in Sessions |-> IF s = SampledSession THEN rate ELSE 0]
        /\ run = [s \in Sessions |-> IF s = SampledSession
                                     THEN [NoLocals EXCEPT !.acquired = TRUE,
                                                           !.total_frames = n,
                                                           !.video_fps = native,
                                                           !.frame_interval = FrameInterval(native, rate),
                                                           !.nraw = n]
                                     ELSE NoLocals]
        /\ disk = [s \in Sessions |-> IF s = SampledSession THEN StagedDisk ELSE NoDisk]
        /\ labels = [s \in Sessions |-> NoDoc]
        /\ req = [t \in Threads |-> IdleReq]

SamplingNext ==
    \/ DecodeLoop(SampledSession)
    \/ WriteProgress(SampledSession)
    \/ WriteError(SampledSession)
    \/ Release(SampledSession)
    \/ WriteDone(SampledSession)

SpecSampling == SamplingInit /\ [][SamplingNext]_vars

(* --------------------------- fitting one box ---------------------------- *)
\* integer boxes left of, inside, across and right of the image, of
\* non-positive, small and oversized extent, for a one-pixel image and for an
\* image of the session's frame size
FitRequests ==
    { [op |-> "fit", stage |-> "idle",
       bbox |-> [x |-> x, y |-> y, width |-> w, height |-> h],
       max_width |-> mw, max_height |-> mh] :
          x \in {-2, 0, 3, ImageWidth + 1}, y \in {-2, 0, ImageHeight - 1},
          w \in -1..(ImageWidth + 1), h \in {-1, 0, 1, ImageHeight, ImageHeight + 1},
          mw \in {1, ImageWidth}, mh \in {1, ImageHeight} }

FitInit ==
    /\ ReturnedInit
    /\ \E rq \in FitRequests : req = [t \in Threads |-> IF t = 1 THEN rq ELSE IdleReq]

\* _fit_bbox_within(bbox, max_width, max_height) is called
FitBbox(t) ==
    /\ req[t].op = "fit" /\ req[t].stage = "idle"
    /\ req' = [req EXCEPT ![t] =
                 [op |-> "fit", stage |-> "done", bbox |-> req[t].bbox,
                  max_width |-> req[t].max_width, max_height |-> req[t].max_height,
                  err |-> IF FitRaises(req[t].bbox) THEN "400 bbox size not positive" ELSE "",
                  result |-> IF FitRaises(req[t].bbox) THEN <<>>
                             ELSE _fit_bbox_within(req[t].bbox, req[t].max_width,
                                                   req[t].max_height)]]
    /\ UNCHANGED <<extractVars, labels, disk>>

FitNext == \E t \in Threads : FitBbox(t)

SpecFit == FitInit /\ [][FitNext]_vars

(* --------------------- the submit_label endpoint ------------------------ *)
\* the parameters of label_service.save_label (lines 33-39) and those among
\* them that have no default
SaveLabelParams == {"session_id", "frame_name", "boxes", "label", "hand_label"}
SaveLabelRequired == {"session_id", "frame_name", "boxes", "label"}

\* a Python call with keyword arguments only: TypeError when a keyword names
\* no parameter or a parameter without default gets no argument
CallRaises(kwargs, params, required) ==
    ~(DOMAIN kwargs \subseteq params) \/ ~(required \subseteq DOMAIN kwargs)

\* labels.py lines 41-47: the keyword arguments submit_label passes
SubmitLabelKwargs(session_id, frame_name, payload) ==
    [session_id |-> session_id, frame_name |-> frame_name, bbox |-> payload.bbox,
     label |-> payload.label, hand_label |-> payload.hand_label]

\* submit_label on the stored document `data`: the call of save_label, whose
\* exception, if it is no HTTPException, is answered with status 500
submit_label(data, session_id, frame_name, payload) ==
    LET kwargs == SubmitLabelKwargs(session_id, frame_name, payload)
    IN  IF CallRaises(kwargs, SaveLabelParams, SaveLabelRequired)
        THEN Failed(data, "500 TypeError")
        ELSE save_label(data, kwargs.frame_name, kwargs.boxes, kwargs.label, kwargs.hand_label)

\* request bodies of LabelRequest: bbox of integers (pydantic BBox), label,
\* optional hand_label
SubmitInputs ==
    { [bbox |-> b, label |-> l, hand_label |-> h] :
          b \in {Box(Num(8), Num(4), Num(12), Num(16)), Box(Num(2), Num(2), Num(0), Num(4))},
          l \in {0, 1, 5}, h \in {Null, Some(5)} }

\* POST /labels/{session_id}/frame/{frame_name}: the thread keeps the request
\* it served, whether the frame was registered, and the answer
SubmitLabel(s) ==
    \E t \in Threads, f \in FrameInputs, p \in SubmitInputs :
        LET r == submit_label(labels[s], s, f, p) IN
            /\ labels' = [labels EXCEPT ![s] = r.data]
            /\ req' = [req EXCEPT ![t] =
                         [op |-> "submit_label", stage |-> "done", session |-> s,
                          frame_name |-> f, payload |-> p,
                          registered |-> (labels[s].exists
                                          /\ FindFrame(labels[s].frames, f) # 0),
                          err |-> r.err]]
            /\ UNCHANGED <<extractVars, disk>>

SubmitNext ==
    \/ InitializeSession(LabelSession)
    \/ SubmitLabel(LabelSession)

SpecSubmit == LabelInit /\ [][SubmitNext]_vars

(* ------------------- label API, calls served in parallel ---------------- *)
\* The label endpoints are plain functions, which the server runs on worker
\* threads: two calls interleave between their load_labels and their
\* write_json. Neither label_service nor the endpoints take a lock.

\* the requests the parallel callers send: each is valid on its own
ConcRequests ==
    { [op |-> "save_label", frame |-> f,
       body |-> [boxes |-> BoxesA, label |-> 1, hand_label |-> Some(5)]] : f \in FrameInputs }
    \cup { [op |-> "save_detections", frame |-> f,
            body |-> [detections |-> <<DetA>>, saved |-> TRUE]] : f \in FrameInputs }
    \cup { [op |-> "reset_labels", frame |-> "", body |-> Absent] }

\* the operation of a request, run on the document the thread loaded
Apply(rq, data) ==
    CASE rq.op = "save_label" ->
            save_label(data, rq.frame, rq.body.boxes, rq.body.label, rq.body.hand_label)
      [] rq.op = "save_detections" ->
            save_detections(data, rq.frame, rq.body.detections, rq.body.saved)
      [] rq.op = "reset_labels" -> reset_labels(data)

\* whether the operation reaches its utils.write_json
Writes(r) == r.err = "" /\ r.data.exists

\* the first statement of save_label, save_detections and reset_labels:
\* data = load_labels(session_id)
LoadLabels(t) ==
    /\ req[t].stage = "idle"
    /\ \E rq \in ConcRequests :
          req' = [req EXCEPT ![t] = [op |-> rq.op, frame |-> rq.frame, body |-> rq.body,
                                     stage |-> "loaded", data |-> labels[LabelSession]]]
    /\ UNCHANGED <<extractVars, labels, disk>>

\* the rest of the operation: the checks, the update of the loaded document
\* and utils.write_json(labels_path(session_id), data)
WriteLabels(t) ==
    /\ req[t].stage = "loaded"
    /\ LET r == Apply(req[t], req[t].data) IN
          /\ labels' = IF Writes(r) THEN [labels EXCEPT ![LabelSession] = r.data] ELSE labels
          /\ req' = [req EXCEPT ![t] = [op |-> req[t].op, frame |-> req[t].frame,
                                        body |-> req[t].body, stage |-> "done",
                                        wrote |-> Writes(r)]]
          /\ disk' = IF req[t].op = "reset_labels" /\ Writes(r)
                     THEN [disk EXCEPT ![LabelSession] = reset_files(@)]
                     ELSE disk
    /\ UNCHANGED extractVars

ConcNext ==
    \/ InitializeSession(LabelSession)
    \/ \E t \in Threads : LoadLabels(t)
    \/ \E t \in Threads : WriteLabels(t)

SpecConc == LabelInit /\ [][ConcNext]_vars

(* ======================= claims on the extractor ======================= *)
\* positions of extract_frames between taking a slot and giving it back
InsideExtraction == {"write_processing", "decode", "write_progress", "write_error", "release"}

\* positions at which the call has left extract_frames, or is past its finally
LeftExtraction == {"raised", "write_done", "returned"}

\* C1: in every reachable state at most MAX_CONCURRENT_EXTRACTIONS (2) calls
\* of extract_frames are between acquiring and releasing the extraction slot.
C1_AtMostTwoExtracting ==
    Cardinality({s \in Sessions : pc[s] \in InsideExtraction}) <= MAX_CONCURRENT_EXTRACTIONS

\* two calls are decoding while a third waits for a slot
C1_Witness ==
    \E s, t, u \in Sessions :
        /\ s # t
        /\ pc[s] = "decode" /\ pc[t] = "decode"
        /\ pc[u] = "blocked"

\* C2: a call that acquired a slot has released it on every exit path, so no
\* call that left extract_frames still holds a slot, and all slots are free
\* whenever no call is inside an extraction.
C2_SlotReleasedOnEveryExit ==
    /\ \A s \in Sessions : pc[s] \in LeftExtraction => slot[s] # "held"
    /\ (\A s \in Sessions : pc[s] \notin InsideExtraction) => sem = MAX_CONCURRENT_EXTRACTIONS

\* C3: a call that waits for a slot has written `queued` with a non-empty
\* message; a session's status is `processing` only once its call was granted
\* a slot; a call that got its slot at once never has status `queued`.
C3_QueuedBeforeBlocking ==
    \A s \in Sessions :
        /\ pc[s] = "blocked" => status[s].status = "queued" /\ status[s].message # ""
        /\ status[s].status = "processing" => slot[s] # "none"
        /\ run[s].acquired => status[s].status # "queued"

\* a call that was queued has been granted a slot and is now `processing`,
\* while another call got its slot at once
C3_Witness ==
    \E s, t \in Sessions :
        /\ pc[s] = "decode" /\ ~run[s].acquired /\ status[s].status = "processing"
        /\ pc[t] = "decode" /\ run[t].acquired /\ status[t].status = "processing"

\* the status changes one extraction run may make
StatusSteps ==
    { <<"absent", "pending">>, <<"pending", "queued">>, <<"pending", "processing">>,
      <<"queued", "processing">>, <<"processing", "processing">>,
      <<"processing", "done">>, <<"processing", "error">> }

\* C4: every write of a run moves the session's status along
\* pending -> (queued)? -> processing -> (done | error), and after `done` or
\* `error` no write of the run changes the Status Record.
C4_StatusMonotonic ==
    [][\A s \in Sessions :
          status'[s] # status[s] =>
              /\ <<status[s].status, status'[s].status>> \in StatusSteps
              /\ status[s].status \notin {"done", "error"}]_vars

\* one run ended `done` after a progress write and another ended `error`
C4_Witness ==
    \E s, t \in Sessions :
        /\ status[s].status = "done" /\ status[s].processed_frames > PROGRESS_EVERY
        /\ status[t].status = "error" /\ pc[t] = "raised"

(* ====================== claims on the label engine ===================== *)
\* the frame records of the stored label document of a session
StoredFrames(s) == IF labels[s].exists THEN labels[s].frames ELSE <<>>

\* C6: every stored frame record with labeled = true has head_box,
\* left_hand_box, right_hand_box, label and hand_label present and non-null.
C6_LabeledFramesComplete ==
    \A s \in Sessions : \A i \in 1..Len(StoredFrames(s)) :
        LET frame == StoredFrames(s)[i] IN
        frame.labeled = Some(TRUE) =>
            /\ IsPresent(frame.head_box)
            /\ IsPresent(frame.left_hand_box)
            /\ IsPresent(frame.right_hand_box)
            /\ IsPresent(frame.label)
            /\ IsPresent(frame.hand_label)

\* C7: for every stored frame record, detection_saved = true implies that
\* the detection list is present and non-empty.
C7_SavedImpliesDetections ==
    \A s \in Sessions : \A i \in 1..Len(StoredFrames(s)) :
        LET frame == StoredFrames(s)[i] IN
        frame.detection_saved = Some(TRUE) =>
            /\ IsPresent(frame.detection_boxes)
            /\ frame.detection_boxes.v # <<>>

\* C8: a save_label call that fails leaves the stored document as it was:
\* for every stored document and every request, a call that raises hands
\* back the document it loaded, nothing changed and no record added.
C8_FailedSaveLabelKeepsDocument ==
    \A s \in Sessions, f \in FrameInputs, q \in SaveLabelInputs :
        LET r == save_label(labels[s], f, q.boxes, q.label, q.hand_label)
        IN  r.err # "" => r.data = labels[s]

\* a document with a labelled frame holding detections, on which requests
\* fail for an unregistered frame name, a bad label and a bad box
C8_Witness ==
    LET d == labels[LabelSession] IN
    /\ d.exists
    /\ \E i \in 1..Len(d.frames) :
          d.frames[i].labeled = Some(TRUE) /\ d.frames[i].detection_saved = Some(TRUE)
    /\ \E f \in FrameInputs : save_label(d, f, BoxesA, 1, Some(5)).err = "404 frame not found"
    /\ \A f \in FrameInputs : save_label(d, f, BoxesA, 6, Some(5)).err = "400 label"
    /\ \A f \in FrameInputs :
          save_label(d, f, Boxes(Some(BoxA), Some(BoxZeroWidth), Some(BoxA)), 1, Some(5)).err
              = "400 bbox size not positive"

\* C9: every pose box stored in a frame record has width > 0 and height > 0.
C9_StoredBoxesPositive ==
    \A s \in Sessions : \A i \in 1..Len(StoredFrames(s)) :
        \A box \in {StoredFrames(s)[i].head_box, StoredFrames(s)[i].left_hand_box,
                    StoredFrames(s)[i].right_hand_box} :
            IsPresent(box) => box.v.width > 0 /\ box.v.height > 0

\* the fields of a frame record save_label writes
PoseOf(frame) ==
    <<frame.labeled, frame.label, frame.hand_label, frame.head_box, frame.left_hand_box,
      frame.right_hand_box, frame.keypoints, frame.relative_pose>>

\* the fields of a frame record save_detections writes
DetectionsOf(frame) == <<frame.detection_boxes, frame.detection_saved>>

\* C10: save_label changes only pose fields of the named frame:
\* its detection fields and every other record stay as they were;
\* save_detections changes only the detection fields of the named frame: its
\* pose fields and every other record stay as they were.
C10_LabelKindsIndependent ==
    \A s \in Sessions, f \in FrameInputs :
        LET before == StoredFrames(s) IN
        /\ \A q \in SaveLabelInputs :
              LET r == save_label(labels[s], f, q.boxes, q.label, q.hand_label)
                  after == IF r.data.exists THEN r.data.frames ELSE <<>>
              IN  /\ Len(after) = Len(before)
                  /\ \A i \in 1..Len(before) :
                        /\ after[i].frame_name = before[i].frame_name
                        /\ DetectionsOf(after[i]) = DetectionsOf(before[i])
                        /\ before[i].frame_name # f => after[i] = before[i]
        /\ \A d \in DetectionInputs, saved \in BOOLEAN :
              LET r == save_detections(labels[s], f, d, saved)
                  after == IF r.data.exists THEN r.data.frames ELSE <<>>
              IN  /\ Len(after) >= Len(before)
                  /\ \A i \in 1..Len(before) :
                        /\ after[i].frame_name = before[i].frame_name
                        /\ PoseOf(after[i]) = PoseOf(before[i])
                        /\ before[i].frame_name # f => after[i] = before[i]

\* a document with two records that both carry a pose label and saved
\* detections, so that either operation has acted on a frame holding the
\* other kind of label
C10_Witness ==
    LET d == labels[LabelSession] IN
    /\ d.exists
    /\ Len(d.frames) >= 2
    /\ \A i \in 1..Len(d.frames) :
          /\ d.frames[i].labeled = Some(TRUE)
          /\ d.frames[i].detection_saved = Some(TRUE)
          /\ IsPresent(d.frames[i].detection_boxes)

(* ================= claims on parallel label requests =================== *)
\* whether the stored frames show the update a completed request made
Applied(rq, frames) ==
    \E i \in 1..Len(frames) :
        /\ frames[i].frame_name = rq.frame
        /\ IF rq.op = "save_label"
           THEN frames[i].labeled = Some(TRUE) /\ frames[i].label = Some(rq.body.label)
           ELSE frames[i].detection_boxes = Some(ValidDets(rq.body.detections))

\* C5: writes to a session's document are serialized: once two save_label /
\* save_detections requests for different frames of the session have both
\* completed, the stored document holds the updates of both.
C5_NoLostUpdate ==
    \A t, u \in Threads :
        (/\ t # u
         /\ req[t].stage = "done" /\ req[u].stage = "done"
         /\ req[t].op # "reset_labels" /\ req[u].op # "reset_labels"
         /\ req[t].wrote /\ req[u].wrote
         /\ req[t].frame # req[u].frame)
        => /\ Applied(req[t], StoredFrames(LabelSession))
           /\ Applied(req[u], StoredFrames(LabelSession))

(* ================== claims on the records of a document ================ *)
\* the frame names of a document, in stored order
Names(data) == IF data.exists THEN [i \in 1..Len(data.frames) |-> data.frames[i].frame_name]
               ELSE <<>>

\* C11: frame names are unique within a session document in every reachable
\* state; save_detections on a name not yet registered appends exactly one
\* record with that name; save_detections on a registered name, save_label and
\* reset_labels add and remove no record; the order of the existing records
\* never changes.
C11_FrameNamesUnique ==
    \A s \in Sessions :
        LET before == Names(labels[s]) IN
        /\ \A i, j \in 1..Len(before) : before[i] = before[j] => i = j
        /\ labels[s].exists =>
              /\ \A f \in FrameInputs, d \in DetectionInputs, saved \in BOOLEAN :
                    Names(save_detections(labels[s], f, d, saved).data)
                        = IF \E i \in 1..Len(before) : before[i] = f THEN before
                          ELSE Append(before, f)
              /\ \A f \in FrameInputs, q \in RoundLabelInputs :
                    Names(save_label(labels[s], f, q.boxes, q.label, q.hand_label).data) = before
              /\ Names(reset_labels(labels[s]).data) = before

\* a name that was never extracted has been registered by save_detections,
\* and the record has then been pose-labelled and given detections again
C11_Witness ==
    LET d == labels[LabelSession] IN
    /\ d.exists
    /\ Len(d.frames) = NumFrames + 1
    /\ d.frames[NumFrames + 1].frame_name = FrameName(NumFrames + 1)
    /\ d.frames[NumFrames + 1].labeled = Some(TRUE)
    /\ d.frames[NumFrames + 1].detection_saved = Some(TRUE)

(* ===================== claims on save_detections ====================== *)
\* a raw value that is a finite number: a number, or a string float() reads
\* as one, that is neither NaN nor infinite
FiniteNumber(v) == v.kind \in {"num", "numstr"}

\* a detection whose five raw values are finite numbers with box_size,
\* image_width and image_height > 0
WellFormedDetection(det) ==
    /\ \A k \in DetKeys : FiniteNumber(det[k])
    /\ det.box_size.v > 0 /\ det.image_width.v > 0 /\ det.image_height.v > 0

\* the five raw values of a detection as sent, and as stored
SentValues(det) ==
    <<det.x.v, det.y.v, det.box_size.v, det.image_width.v, det.image_height.v>>

StoredValues(det) == <<det.x, det.y, det.box_size, det.image_width, det.image_height>>

\* C12: save_detections never fails because of a malformed detection: the
\* stored list is exactly the subsequence, in input order, of the input
\* detections whose five raw values are finite numbers with box_size,
\* image_width, image_height > 0; nothing of the frame's previous list is
\* kept; the returned count is the length of the stored list.
C12_StoredDetectionsAreTheValidOnes ==
    \A s \in Sessions, f \in FrameInputs, d \in DetectOnlyInputs, saved \in BOOLEAN :
        labels[s].exists =>
            LET r == save_detections(labels[s], f, d, saved)
                frame == r.data.frames[FindFrame(r.data.frames, f)]
                expected == SelectSeq(d, WellFormedDetection)
            IN  /\ r.err = ""
                /\ IsPresent(frame.detection_boxes)
                /\ Len(frame.detection_boxes.v) = Len(expected)
                /\ \A k \in 1..Len(expected) :
                      StoredValues(frame.detection_boxes.v[k]) = SentValues(expected[k])
                /\ r.result.v.count = Len(frame.detection_boxes.v)

\* an extracted frame holds the two survivors of a list with a malformed
\* detection between them
C12_Witness ==
    LET d == labels[LabelSession] IN
    /\ d.exists
    /\ d.frames[1].detection_boxes = Some(ValidDets(<<DetB, DetZeroSize, DetA>>))
    /\ Len(d.frames[1].detection_boxes.v) = 2
    /\ d.frames[1].detection_saved = Some(TRUE)

\* C13: save_detections is idempotent: for every session state and every
\* input (frame name, detection list, saved flag), a second call with the
\* same input leaves the document the first call left and returns the same
\* result.
C13_SaveDetectionsIdempotent ==
    \A s \in Sessions, f \in FrameInputs, d \in DetectOnlyInputs, saved \in BOOLEAN :
        LET once == save_detections(labels[s], f, d, saved)
            twice == save_detections(once.data, f, d, saved)
        IN  /\ twice.data = once.data
            /\ twice.result = once.result
            /\ twice.err = once.err

\* the document is what a call with a partly malformed list leaves, on a
\* frame that a save_detections call registered and that holds detections
C13_Witness ==
    LET d == labels[LabelSession] IN
    /\ d.exists
    /\ Len(d.frames) = NumFrames + 1
    /\ d.frames[NumFrames + 1].labeled = Absent
    /\ d.frames[NumFrames + 1].detection_boxes = Some(ValidDets(<<DetNaN, DetA>>))
    /\ save_detections(d, FrameName(NumFrames + 1), <<DetNaN, DetA>>, TRUE).data = d

(* ====================== claims on frame sampling ====================== *)
\* C14: for a source with N decodable raw frames, extract_frames keeps exactly
\* the frames whose zero-based raw index is a multiple of
\* interval = max(1, round(native_fps / requested_fps)) (1 when the native
\* rate is unknown) and names them frame_00001.jpg .. frame_K.jpg
\* consecutively in decode order, K being the number of kept frames.
C14_KeepsEveryIntervalthFrame ==
    \A s \in Sessions :
        pc[s] = "write_done" =>
            LET n == run[s].nraw
                native == run[s].video_fps
                interval == run[s].frame_interval
                kept == {i \in 0..(n - 1) : i % interval = 0}
                K == Cardinality(kept)
            IN  /\ native = 0 => interval = 1
                /\ native > 0 =>
                      \E q \in 0..native :
                          /\ 2 * q * fps[s] <= 2 * native + fps[s]
                          /\ 2 * q * fps[s] >= 2 * native - fps[s]
                          /\ interval = Max(1, q)
                /\ run[s].saved_files = [k \in 1..K |-> FrameName(k)]
                /\ K >= 1 => run[s].saved_files[1] = "frame_00001.jpg"
                /\ disk[s].frames = {<<k, (k - 1) * interval>> : k \in 1..K}
                /\ {f[2] : f \in disk[s].frames} = kept

\* the loop has ended on a source of MaxRaw frames sampled at every sixth frame
C14_Witness ==
    /\ pc[SampledSession] = "write_done"
    /\ run[SampledSession].nraw = MaxRaw
    /\ run[SampledSession].video_fps = 30 /\ fps[SampledSession] = 5
    /\ run[SampledSession].frame_interval = 6
    /\ Len(run[SampledSession].saved_files) = ((MaxRaw - 1) \div 6) + 1

(* ========================= claims on the exports ======================= *)
\* C15: export_dataset never fails because of a malformed or incomplete frame
\* record: for every reachable session document (records whose stored boxes
\* have width or height 0, or without hand_label, included) the export
\* completes and returns the archive path.
C15_ExportNeverFails ==
    \A s \in Sessions :
        labels[s].exists =>
            /\ export_dataset(labels[s], disk[s]).err = ""
            /\ IsPresent(export_dataset(labels[s], disk[s]).result)

\* the paths and the manifests of a classification archive of K exported frames
HeadPath(k) == "data/head_pose/images/head_" \o ZeroPad(DecStr(k), 5) \o ".jpg"
HandPath(k) == "data/hand_pose/images/hand_" \o ZeroPad(DecStr(k), 5) \o ".jpg"

NumberedArchive(entries, K) ==
    /\ Len(entries) = 2 * K + 2
    /\ \A k \in 1..K : /\ entries[2 * k - 1].path = HeadPath(k)
                       /\ entries[2 * k].path = HandPath(k)
    /\ entries[2 * K + 1].path = "data/head_pose/labels.json"
    /\ entries[2 * K + 2].path = "data/hand_pose/labels.json"
    /\ Len(entries[2 * K + 1].body) = K
    /\ Len(entries[2 * K + 2].body) = K
    /\ \A k \in 1..K :
          /\ entries[2 * K + 1].body[k].image = "head_" \o ZeroPad(DecStr(k), 5) \o ".jpg"
          /\ entries[2 * K + 2].body[k].image = "hand_" \o ZeroPad(DecStr(k), 5) \o ".jpg"
    \* stored frame order: the raw frames of the crops increase
    /\ \A k \in 1..(K - 1) : entries[2 * k - 1].body[1] < entries[2 * k + 1].body[1]
    /\ \A k \in 1..K : entries[2 * k].body[1] = entries[2 * k - 1].body[1]

\* C16: in the classification archive the head entries are head_00001 ..
\* head_K and the hand entries hand_00001 .. hand_K, without gaps and in
\* stored frame order, K being the number of exported frames, and each
\* manifest has exactly one (file name, label) entry per exported file of its
\* type.
C16_ExportNumberedWithoutGaps ==
    \A s \in Sessions :
        disk[s].export.exists =>
            \E K \in 0..(NumFrames + 1) : NumberedArchive(disk[s].export.entries, K)

\* the entries of a detection archive with a given path
EntriesAt(entries, path) == SelectSeq(entries, LAMBDA en : en.path = path)

\* C17: the detection archive holds, for every frame record with
\* detection_saved = true (lazily registered ones included), the entry
\* images/<frame_name> and the entry labels/<stem>.txt with one line per stored
\* detection, and no entry for a frame whose detection_saved is not true.
C17_DetectionExportComplete ==
    \A s \in Sessions :
        labels[s].exists =>
            LET entries == export_detections(labels[s], disk[s]).archive.entries IN
            \A i \in 1..Len(labels[s].frames) :
                LET frame == labels[s].frames[i]
                    images == EntriesAt(entries, "images/" \o frame.frame_name)
                    lines == EntriesAt(entries, "labels/" \o LabelFileName(frame.frame_name))
                IN  IF frame.detection_saved = Some(TRUE)
                    THEN /\ Len(images) = 1
                         /\ Len(lines) = 1
                         /\ Len(lines[1].body) =
                                (IF IsPresent(frame.detection_boxes)
                                 THEN Len(frame.detection_boxes.v) ELSE 0)
                    ELSE images = <<>> /\ lines = <<>>

(* ==================== claims on reset and cleanup ===================== *)
\* C18: reset_labels on an existing session leaves the sequence of frame
\* names unchanged, sets labeled = false on every record, leaves the Status
\* Record unchanged, and afterwards neither archive nor the crops directory of
\* the session exists.
C18_ResetKeepsFramesDropsArtifacts ==
    [][\A s \in Sessions :
          (labels[s].exists /\ ResetLabels(s)) =>
              /\ labels'[s].exists
              /\ Names(labels'[s]) = Names(labels[s])
              /\ \A i \in 1..Len(labels'[s].frames) : labels'[s].frames[i].labeled = Some(FALSE)
              /\ status'[s] = status[s]
              /\ ~disk'[s].export.exists
              /\ ~disk'[s].det_export.exists
              /\ ~disk'[s].crops]_vars

\* reset_labels has run on a document with a lazily registered frame that
\* held saved detections: every record is unlabelled, the detection list is
\* gone, and neither the crops directory nor an archive is left
C18_Witness ==
    LET d == labels[LabelSession] IN
    /\ d.exists
    /\ Len(d.frames) = NumFrames + 1
    /\ \A i \in 1..Len(d.frames) : d.frames[i].labeled = Some(FALSE)
    /\ d.frames[NumFrames + 1].detection_saved = Some(TRUE)
    /\ d.frames[NumFrames + 1].detection_boxes = Absent
    /\ ~disk[LabelSession].crops
    /\ ~disk[LabelSession].export.exists /\ ~disk[LabelSession].det_export.exists
    /\ status[LabelSession].status = "done"

\* C19: after cleanup_session(s) has completed, with no other operation on s
\* in flight, no artifact of session s remains: the videos, frames and crops
\* directories, the status document, the label document and both export
\* archives are absent.
C19_CleanupLeavesNothing ==
    \A s \in Sessions :
        pc[s] = "cleaned" =>
            /\ ~disk[s].videos /\ ~disk[s].frames_dir /\ disk[s].frames = {}
            /\ ~disk[s].crops
            /\ status[s] = NoStatus
            /\ ~labels[s].exists
            /\ ~disk[s].export.exists
            /\ ~disk[s].det_export.exists

(* ====================== claims on _fit_bbox_within ==================== *)
\* C20: for every box with width > 0 and height > 0 and every image with
\* positive integer dimensions, the box (x, y, w, h) that _fit_bbox_within
\* returns has 0 <= x, 0 <= y, w >= 1, h >= 1, x + w <= image_width and
\* y + h <= image_height; for width <= 0 or height <= 0 it fails with
\* InvalidBox.
C20_FittedBoxInsideImage ==
    \A t \in Threads :
        (req[t].op = "fit" /\ req[t].stage = "done") =>
            IF req[t].bbox.width > 0 /\ req[t].bbox.height > 0
            THEN /\ req[t].err = ""
                 /\ Len(req[t].result) = 4
                 /\ 0 <= req[t].result[1] /\ 0 <= req[t].result[2]
                 /\ req[t].result[3] >= 1 /\ req[t].result[4] >= 1
                 /\ req[t].result[1] + req[t].result[3] <= req[t].max_width
                 /\ req[t].result[2] + req[t].result[4] <= req[t].max_height
            ELSE req[t].err = "400 bbox size not positive"

\* a box wider than the image that starts right of it has been fitted
C20_Witness ==
    \E t \in Threads :
        /\ req[t].op = "fit" /\ req[t].stage = "done"
        /\ req[t].bbox.x > req[t].max_width
        /\ req[t].bbox.width > req[t].max_width
        /\ req[t].bbox.y < 0
        /\ req[t].err = ""
        /\ req[t].result[1] = 0 /\ req[t].result[3] = req[t].max_width

(* ===================== claims on the session's life ==================== *)
\* C21: every extraction run started by an upload eventually leaves the
\* session's Status Record in a terminal status, `done` or `error` (decoding
\* terminates, slots are granted fairly); a run that fails with InvalidRate,
\* SourceMissing or SourceUnreadable does not leave `pending` forever.
C21_RunEndsInTerminalStatus ==
    \A s \in Sessions :
        (pc[s] = "scheduled") ~> (status[s].status \in {"done", "error"})

\* C23: at any time at most 2 sessions have a Status Record whose status is
\* `processing`, under any interleaving of concurrent extractions.
C23_AtMostTwoProcessingStatuses ==
    Cardinality({s \in Sessions : status[s].status = "processing"}) <= MAX_CONCURRENT_EXTRACTIONS

\* C22: whenever a session's Status Record reads `done`, the session's label
\* document exists with one record per extracted frame, so a save_label or
\* save_detections call issued after observing `done` does not fail with
\* SessionNotFound.
C22_DoneImpliesLabelDocument ==
    \A s \in Sessions :
        status[s].status = "done" =>
            /\ labels[s].exists
            /\ Len(labels[s].frames) = Len(run[s].saved_files)
            /\ \A f \in FrameInputs, q \in RoundLabelInputs :
                  save_label(labels[s], f, q.boxes, q.label, q.hand_label).err
                      # "404 session not found"

\* the session was created and neither of its two documents exists
Deleted(s) == pc[s] # "none" /\ status[s] = NoStatus /\ ~labels[s].exists

\* C24: once cleanup_session(s) has completed, session s stays deleted: no
\* later step of an extraction of s that was still in flight (progress or
\* terminal status writes, or the initialize_session call that follows
\* extraction) recreates the status document or the label document of s.
C24_CleanedSessionStaysDeleted ==
    [][\A s \in Sessions : Deleted(s) => Deleted(s)']_vars

(* =================== claims on the submit_label endpoint ============== *)
\* C25: a pose-label request submitted through the submit_label endpoint with
\* label in 1..5 and a box of positive width and height, for a frame
\* registered in an existing session, succeeds and leaves that frame record
\* with labeled = true.
C25_SubmitLabelSucceeds ==
    \A t \in Threads :
        ( /\ req[t].op = "submit_label" /\ req[t].stage = "done"
          /\ req[t].registered
          /\ req[t].payload.label \in 1..5
          /\ req[t].payload.bbox.width.v > 0 /\ req[t].payload.bbox.height.v > 0 )
        => /\ req[t].err = ""
           /\ \E i \in 1..Len(StoredFrames(req[t].session)) :
                 /\ StoredFrames(req[t].session)[i].frame_name = req[t].frame_name
                 /\ StoredFrames(req[t].session)[i].labeled = Some(TRUE)
====
